---- MODULE Spec2Model ----
(***************************************************************************)
(* Model of ollama_chat_gui.py: the conversation log store (log_message,   *)
(* list_logs, load_log), the chat window's handlers (new_chat,             *)
(* load_selected_log, send_message, the worker's _request_response and the *)
(* queued _append_response), and the model registry (list_installed_models,*)
(* fetch_remote_models, ModelDialog).                                      *)
(*                                                                         *)
(* A text is a sequence of tokens.  A token is a word, a run of whitespace *)
(* (" ") or a piece of markup ("<...>"): that is all the code and the Qt   *)
(* widgets distinguish (str.strip, str.split, the rich-text paragraph of   *)
(* QTextEdit.append).                                                      *)
(***************************************************************************)
EXTENDS Integers, Sequences, FiniteSets, TLC

VARIABLES
    current_conversation, \* ChatWindow.current_conversation
    chat_view,            \* content of the QTextEdit: [plain, turns]
    log_list,             \* items of the sidebar QListWidget
    files,                \* logs/<stem>.txt: stem -> sequence of lines
    mtime,                \* st_mtime of each file
    clock,                \* the time, one tick per write
    threads,              \* worker threads started by send_message, by id
    events,               \* the UI thread's queue of posted invocations
    attempts,             \* number of log writes attempted so far
    models,               \* ChatWindow.models (content of model_box)
    dialog,               \* the ModelDialog: open?, list items, current row
    cli_result,           \* outcome of the last list_installed_models() call
    pulled                \* the name last handed to `ollama pull`

chatVars == <<current_conversation, chat_view, log_list, files, mtime, clock,
              threads, events, attempts>>
regVars  == <<models, dialog, cli_result, pulled>>
vars     == <<current_conversation, chat_view, log_list, files, mtime, clock,
              threads, events, attempts, models, dialog, cli_result, pulled>>

\* ------------------------------------------------------------------ bounds
MaxWrites == 6     \* log writes attempted in one run
MaxRows  == 4      \* rows after the header in `ollama list` output
MaxDlgRows == 2    \* the same, while the model dialog is used
MaxCat   == 2      \* entries of a remote catalog response

\* ------------------------------------------------------------------ values
None  == "None"                    \* Python's None
Names == {"A", "B"}                \* conversation names the user types
\* Threads: the one that owns the widgets, and the worker of request id.
UI         == [kind |-> "ui", id |-> 0]
Worker(id) == [kind |-> "worker", id |-> id]

Tags == {"<urllib3.connection.HTTPConnection object>"}

\* What the user may have typed in the entry line when Send is pressed.
Entries == { <<" ">>, <<" ", "hi", " ">> }

\* str.strip(): whitespace removed at both ends.
RECURSIVE LStrip(_)
LStrip(s) == IF s # <<>> /\ Head(s) = " " THEN LStrip(Tail(s)) ELSE s

RECURSIVE RStrip(_)
RStrip(s) ==
    IF s # <<>> /\ s[Len(s)] = " " THEN RStrip(SubSeq(s, 1, Len(s) - 1)) ELSE s

Strip(s) == RStrip(LStrip(s))

IsTag(tok) == tok \in Tags

\* QTextEdit.append of a rich-text paragraph: the markup in it is interpreted,
\* not shown.
Render(text) == SelectSeq(text, LAMBDA tok : ~IsTag(tok))

Range(s) == { s[i] : i \in 1..Len(s) }

IsPrefix(s, t) == Len(s) <= Len(t) /\ SubSeq(t, 1, Len(s)) = s

\* ------------------------------------------------------- conversation logs
Line(ts, speaker, text, req, thr) ==
    [ts |-> ts, speaker |-> speaker, text |-> text, req |-> req, by |-> thr]

LogPut(f, conversation, line) ==
    IF conversation \in DOMAIN f
    THEN [f EXCEPT ![conversation] = Append(@, line)]
    ELSE [c \in DOMAIN f \cup {conversation} |->
            IF c = conversation THEN <<line>> ELSE f[c]]

TouchPut(m, conversation, t) ==
    [c \in DOMAIN m \cup {conversation} |-> IF c = conversation THEN t ELSE m[c]]

\* Mutant of log_message: the file is opened in mode "w", so the line replaces
\* what the file held.
log_message_truncating(conversation, speaker, text, req, thr, w) ==
    /\ attempts' = attempts + 1
    /\ IF w
       THEN /\ files' = [c \in DOMAIN files \cup {conversation} |->
                           IF c = conversation
                           THEN <<Line(clock + 1, speaker, text, req, thr)>>
                           ELSE files[c]]
            /\ mtime' = TouchPut(mtime, conversation, clock + 1)
            /\ clock' = clock + 1
       ELSE UNCHANGED <<files, mtime, clock>>

\* log_message: one line appended to logs/<conversation>.txt.  w says whether
\* the open-and-write succeeds; when it does not, the exception leaves the file
\* as it was.  req and thr record which request the line belongs to and which
\* thread is executing the call.
log_message(conversation, speaker, text, req, thr, w) ==
    /\ attempts' = attempts + 1
    /\ IF w
       THEN /\ files' = LogPut(files, conversation,
                               Line(clock + 1, speaker, text, req, thr))
            /\ mtime' = TouchPut(mtime, conversation, clock + 1)
            /\ clock' = clock + 1
       ELSE UNCHANGED <<files, mtime, clock>>

\* sorted(glob("*.txt"), key=st_mtime, reverse=True), then the stems.
SortedBy(m, desc) ==
    LET D == DOMAIN m
        n == Cardinality(D)
    IN  CHOOSE s \in [1..n -> D] :
            /\ \A c \in D : \E i \in 1..n : s[i] = c
            /\ \A i, j \in 1..n :
                   i < j => IF desc THEN m[s[i]] >= m[s[j]]
                                    ELSE m[s[i]] <= m[s[j]]

\* Mutant of list_logs: reverse=True is left out.
list_logs_oldest_first(m) == SortedBy(m, FALSE)

list_logs(m) == SortedBy(m, TRUE)

load_log(name) == IF name \in DOMAIN files THEN files[name] ELSE <<>>

\* --------------------------------------------------------------- chat window
EmptyView == [plain |-> <<>>, turns |-> <<>>]

ViewTurn(speaker, text, thr) == [speaker |-> speaker, text |-> text, by |-> thr]

\* ChatWindow.append_chat: the paragraph is appended to the view first, then
\* the line is logged when a conversation is selected.
append_chat(speaker, text, req, thr, w) ==
    /\ chat_view' = [chat_view EXCEPT
                       !.turns = Append(@, ViewTurn(speaker, Render(text), thr))]
    /\ IF current_conversation # None
       THEN log_message(current_conversation, speaker, text, req, thr, w)
       ELSE UNCHANGED <<files, mtime, clock, attempts>>

\* ChatWindow.refresh_logs, on the files as they are after the handler's write.
refresh_logs == log_list' = list_logs(mtime')

\* The replies still to be written: a write is kept for each of them.
Pending == Cardinality({ i \in 1..Len(threads) : threads[i].pc # "done" })

\* ChatWindow.new_chat: name and ok are what the input dialog returns.
new_chat(name, ok, w) ==
    IF ok /\ name # ""
    THEN /\ attempts + Pending + 1 <= MaxWrites
         /\ current_conversation' = name
         /\ chat_view' = EmptyView
         /\ log_message(name, "system", <<"Started conversation">>, 0, UI, w)
         /\ IF w THEN refresh_logs ELSE UNCHANGED log_list
         /\ UNCHANGED <<threads, events>>
    ELSE UNCHANGED chatVars

\* ChatWindow.load_selected_log: item is a row of the sidebar list.
load_selected_log(item) ==
    /\ item \in Range(log_list)
    /\ current_conversation' = item
    /\ chat_view' = [plain |-> load_log(item), turns |-> <<>>]
    /\ UNCHANGED <<log_list, files, mtime, clock, threads, events, attempts>>

\* model_box.currentText()
currentText == IF models = <<>> THEN "" ELSE models[1]

Thread(model, prompt, conv) ==
    [model |-> model, prompt |-> prompt, conv |-> conv, pc |-> "running",
     posts |-> 0, failed |-> FALSE, response |-> <<>>,
     turns |-> 0, shown |-> <<>>, loggedTo |-> None]

\* ChatWindow.send_message: raw is the content of the entry line.  The thread
\* is started after append_chat returns, so not when its write raises.
send_message(raw, w) ==
    LET text == Strip(raw)
        id   == Len(threads) + 1
    IN  IF text = <<>> \/ current_conversation = None
        THEN UNCHANGED chatVars
        ELSE /\ attempts + Pending + 2 <= MaxWrites
             /\ append_chat("You", text, id, UI, w)
             /\ threads' = IF w
                           THEN Append(threads,
                                       Thread(currentText, text,
                                              current_conversation))
                           ELSE threads
             /\ UNCHANGED <<current_conversation, log_list, events>>

\* The ways requests.post / raise_for_status / resp.json() raise, and str(e).
\* The text of a refused connection names the connection object or not,
\* depending on the installed urllib3.
Failures == {"refused", "timeout", "status", "badjson"}

ExcText(kind) ==
    CASE kind = "refused" ->
             { <<"HTTPConnectionPool",
                 "<urllib3.connection.HTTPConnection object>",
                 "Connection refused">>,
               <<"HTTPConnectionPool", "Connection refused">> }
      [] kind = "timeout" -> { <<"Read timed out">> }
      [] kind = "status"  -> { <<"500 Server Error">> }
      [] kind = "badjson" -> { <<"Expecting value">> }

\* data.get("response", ""): the reply text of an answered request.
Replies == { <<"ok">> }

\* What the try block of _request_response leaves in `response` when the
\* request fails in one of the ways kinds, or succeeds.
OutcomesOf(kinds) ==
    { [failed |-> FALSE, text |-> r] : r \in Replies } \cup
    { [failed |-> TRUE, text |-> <<"Error: ">> \o t] :
          t \in UNION { ExcText(k) : k \in kinds } }

\* Mutant of _request_response: a failed POST is tried once more before the
\* error is posted.
request_response_retry(id, out) ==
    /\ id \in 1..Len(threads)
    /\ threads[id].pc = "running"
    /\ threads' = [threads EXCEPT ![id] =
                      [@ EXCEPT !.pc = "posted",
                                !.posts = @ + (IF out.failed THEN 2 ELSE 1),
                                !.failed = out.failed, !.response = out.text]]
    /\ events' = Append(events, [id |-> id, text |-> out.text])
    /\ UNCHANGED <<current_conversation, chat_view, log_list, files, mtime,
                   clock, attempts>>

\* Mutant of _request_response: the worker calls append_chat itself instead
\* of posting a queued invocation.
request_response_direct(id, out) ==
    /\ id \in 1..Len(threads)
    /\ threads[id].pc = "running"
    /\ append_chat("Bot", out.text, id, Worker(id), TRUE)
    /\ threads' = [threads EXCEPT ![id] =
                      [@ EXCEPT !.pc = "done", !.posts = @ + 1,
                                !.failed = out.failed, !.response = out.text,
                                !.turns = @ + 1, !.shown = Render(out.text),
                                !.loggedTo = current_conversation]]
    /\ UNCHANGED <<current_conversation, log_list, events>>

\* ChatWindow._request_response, on worker thread id: one POST, then the
\* result is posted to the UI thread as a queued invocation.
request_response(id, out) ==
    /\ id \in 1..Len(threads)
    /\ threads[id].pc = "running"
    /\ threads' = [threads EXCEPT ![id] =
                      [@ EXCEPT !.pc = "posted", !.posts = @ + 1,
                                !.failed = out.failed, !.response = out.text]]
    /\ events' = Append(events, [id |-> id, text |-> out.text])
    /\ UNCHANGED <<current_conversation, chat_view, log_list, files, mtime,
                   clock, attempts>>

\* Mutant of _append_response: the reply is appended under the user's label.
append_response_as_user(w) ==
    /\ events # <<>>
    /\ LET e == Head(events)
       IN  /\ append_chat("You", e.text, e.id, UI, w)
           /\ threads' = [threads EXCEPT ![e.id] =
                            [@ EXCEPT !.pc = "done", !.turns = @ + 1,
                                      !.shown = Render(e.text),
                                      !.loggedTo = IF w
                                                   THEN current_conversation
                                                   ELSE None]]
    /\ events' = Tail(events)
    /\ UNCHANGED <<current_conversation, log_list>>

\* ChatWindow._append_response, run by the UI thread's event loop for the
\* oldest queued invocation.
append_response(w) ==
    /\ events # <<>>
    /\ LET e == Head(events)
       IN  /\ append_chat("Bot", e.text, e.id, UI, w)
           /\ threads' = [threads EXCEPT ![e.id] =
                            [@ EXCEPT !.pc = "done", !.turns = @ + 1,
                                      !.shown = Render(e.text),
                                      !.loggedTo = IF w
                                                   THEN current_conversation
                                                   ELSE None]]
    /\ events' = Tail(events)
    /\ UNCHANGED <<current_conversation, log_list>>

\* ------------------------------------------------------------ model registry
\* A line of `ollama list` output, as tokens: the header, a model's row, an
\* empty line, a line of whitespace only.
Header   == <<"NAME", " ", "ID">>
ModelRow(m) == <<m, " ", "id">>
BodyRows == { ModelRow("m1"), ModelRow("m2"), <<>>, <<" ">> }
DlgRows  == { ModelRow("m1"), <<>>, <<" ">> }

RECURSIVE SeqsUpTo(_, _)
SeqsUpTo(S, n) ==
    IF n = 0 THEN { <<>> }
    ELSE LET shorter == SeqsUpTo(S, n - 1)
         IN  shorter \cup { Append(q, x) : q \in shorter, x \in S }

\* What running ["ollama", "list"] may do: the binary is missing, it exits
\* non-zero, or it prints the header and up to n rows.
CliOver(rows, n) ==
    { [kind |-> "missing", rows |-> <<>>], [kind |-> "nonzero", rows |-> <<>>] }
    \cup { [kind |-> "ok", rows |-> <<Header>> \o body] :
               body \in SeqsUpTo(rows, n) }

CliOutcomes == CliOver(BodyRows, MaxRows)

\* str.split(): the words of a line.
Split(line) == SelectSeq(line, LAMBDA tok : tok # " ")

Blank(line) == Split(line) = <<>>

RECURSIVE DropBlankHead(_)
DropBlankHead(rows) ==
    IF rows # <<>> /\ Blank(Head(rows)) THEN DropBlankHead(Tail(rows)) ELSE rows

RECURSIVE DropBlankTail(_)
DropBlankTail(rows) ==
    IF rows # <<>> /\ Blank(rows[Len(rows)])
    THEN DropBlankTail(SubSeq(rows, 1, Len(rows) - 1))
    ELSE rows

\* output.strip().splitlines(): whitespace, line breaks included, is removed at
\* both ends of the output; the lines in between stay as they are.
StripLines(rows) ==
    LET r == DropBlankTail(DropBlankHead(rows))
    IN  [i \in 1..Len(r) |->
            IF i = 1 /\ i = Len(r) THEN Strip(r[i])
            ELSE IF i = 1 THEN LStrip(r[i])
            ELSE IF i = Len(r) THEN RStrip(r[i])
            ELSE r[i]]

\* The loop of list_installed_models over lines[1:].
RECURSIVE FirstTokens(_)
FirstTokens(lines) ==
    IF lines = <<>> THEN <<>>
    ELSE IF Head(lines) # <<>>
         THEN <<Split(Head(lines))[1]>> \o FirstTokens(Tail(lines))
         ELSE FirstTokens(Tail(lines))

\* list_installed_models() when the command does cli: the list returned, or
\* raised when an exception leaves the function (line.split()[0] on a line
\* that split() leaves without words).
list_installed_models(cli) ==
    IF cli.kind # "ok"
    THEN [raised |-> FALSE, value |-> <<>>]
    ELSE LET lines == StripLines(cli.rows)
             body  == IF lines = <<>> THEN <<>> ELSE Tail(lines)
         IN  IF \E i \in 1..Len(body) : body[i] # <<>> /\ Split(body[i]) = <<>>
             THEN [raised |-> TRUE, value |-> <<>>]
             ELSE [raised |-> FALSE, value |-> FirstTokens(body)]

CallResult(cli) ==
    LET r == list_installed_models(cli)
    IN  [cli |-> cli, raised |-> r.raised, value |-> r.value]

\* A call of list_installed_models(), with what it did kept for inspection.
call_list_installed_models(cli) ==
    /\ cli_result' = CallResult(cli)
    /\ UNCHANGED <<models, dialog, pulled>>

\* What a call made while the dialog is used may do.
DlgListResults == { list_installed_models(cli) : cli \in CliOver(DlgRows, MaxDlgRows) }

\* An entry of the remote catalog; size None: the entry has no "size".
CatEntries == { [name |-> "m1", size |-> "4GB"], [name |-> "m3", size |-> None] }

\* What the GET of the catalog may do: fail, or answer with a list of entries.
CatOutcomes ==
    { [kind |-> "error", models |-> <<>>] } \cup
    { [kind |-> "ok", models |-> c] : c \in SeqsUpTo(CatEntries, MaxCat) }

fetch_remote_models(resp) == IF resp.kind = "ok" THEN resp.models ELSE <<>>

\* Mutant of the loop body of load_models: the item of an installed model is
\* marked but left enabled.
Item_left_enabled(m, installed) ==
    [name    |-> m.name,
     text    |-> <<m.name, IF m.size = None THEN "?" ELSE m.size>>
                 \o (IF m.name \in installed THEN <<" - installed">> ELSE <<>>),
     enabled |-> TRUE]

\* The QListWidgetItem load_models builds for catalog entry m.
Item(m, installed) ==
    [name    |-> m.name,
     text    |-> <<m.name, IF m.size = None THEN "?" ELSE m.size>>
                 \o (IF m.name \in installed THEN <<" - installed">> ELSE <<>>),
     enabled |-> m.name \notin installed]

\* The loop of load_models over the catalog.
Items(cat, installed) == [i \in 1..Len(cat) |-> Item(cat[i], installed)]

\* ModelDialog.load_models, r being what list_installed_models() does: the
\* list is cleared, then filled from the catalog.  When the listing raises,
\* the list stays cleared and no catalog is fetched.
load_models(d, r, resp) ==
    IF r.raised
    THEN [d EXCEPT !.items = <<>>, !.current = 0, !.complete = FALSE]
    ELSE [d EXCEPT !.items = Items(fetch_remote_models(resp), Range(r.value)),
                   !.current = 0, !.complete = TRUE,
                   !.catalog = fetch_remote_models(resp),
                   !.installed = Range(r.value)]

ClosedDialog ==
    [open |-> FALSE, items |-> <<>>, current |-> 0, complete |-> FALSE,
     catalog |-> <<>>, installed |-> {}]

\* ChatWindow.open_model_dialog up to dlg.exec_(): the dialog is constructed,
\* which loads the models, and shown unless the constructor raised.
open_model_dialog(r, resp) ==
    /\ ~dialog.open
    /\ dialog' = IF r.raised
                 THEN ClosedDialog
                 ELSE load_models([ClosedDialog EXCEPT !.open = TRUE], r, resp)
    /\ UNCHANGED <<models, pulled, cli_result>>

\* The Refresh button.
refresh_clicked(r, resp) ==
    /\ dialog.open
    /\ dialog' = load_models(dialog, r, resp)
    /\ UNCHANGED <<models, pulled, cli_result>>

\* The user makes row i the current item; Qt lets only an enabled item become
\* current.
select_item(i) ==
    /\ dialog.open
    /\ i \in 1..Len(dialog.items)
    /\ dialog.items[i].enabled
    /\ dialog' = [dialog EXCEPT !.current = i]
    /\ UNCHANGED <<models, cli_result, pulled>>

\* ModelDialog.install_selected
install_selected(r, resp) ==
    /\ dialog.open
    /\ IF dialog.current = 0
       THEN UNCHANGED regVars
       ELSE /\ pulled' = dialog.items[dialog.current].name
            /\ dialog' = load_models(dialog, r, resp)
            /\ UNCHANGED <<models, cli_result>>

\* ChatWindow.open_model_dialog after dlg.exec_() returns: the installed
\* models are listed again and put in model_box.
close_model_dialog(r) ==
    /\ dialog.open
    /\ models' = IF r.raised THEN models ELSE r.value
    /\ dialog' = ClosedDialog
    /\ UNCHANGED <<pulled, cli_result>>

\* ----------------------------------------------------------- specifications
\* `ollama list` when the window is constructed.
StartupCli == [kind |-> "ok", rows |-> <<Header, ModelRow("m1")>>]

\* ChatWindow.__init__: no conversation, the installed models, the sidebar
\* filled from a logs directory that holds no file yet.
Init ==
    /\ current_conversation = None
    /\ chat_view = EmptyView
    /\ files = <<>>
    /\ mtime = <<>>
    /\ log_list = <<>>
    /\ clock = 0
    /\ threads = <<>>
    /\ events = <<>>
    /\ attempts = 0
    /\ cli_result = CallResult(StartupCli)
    /\ models = list_installed_models(StartupCli).value
    /\ dialog = ClosedDialog
    /\ pulled = None

NewChat(w) ==
    \E name \in Names \cup {""}, ok \in BOOLEAN :
        new_chat(name, ok, w) /\ UNCHANGED regVars

LoadSelectedLog ==
    \E item \in Names : load_selected_log(item) /\ UNCHANGED regVars

SendMessage(w) ==
    \E raw \in Entries : send_message(raw, w) /\ UNCHANGED regVars

RequestResponse(kinds) ==
    \E id \in 1..MaxWrites, out \in OutcomesOf(kinds) :
        request_response(id, out) /\ UNCHANGED regVars

AppendResponse(w) == append_response(w) /\ UNCHANGED regVars

\* The chat window with a writable logs directory; a request is answered or
\* times out.
Next ==
    \/ NewChat(TRUE)
    \/ LoadSelectedLog
    \/ SendMessage(TRUE)
    \/ RequestResponse({"timeout"})
    \/ AppendResponse(TRUE)

Spec == Init /\ [][Next]_vars

\* Every started worker's request resolves (the POST has a timeout) and the
\* UI thread's event loop runs every queued invocation.
FairSpec ==
    /\ Init /\ [][Next]_vars
    /\ WF_vars(RequestResponse({"timeout"}))
    /\ WF_vars(AppendResponse(TRUE))

\* The chat window when a write to the logs directory may fail.
NextFs ==
    \/ \E w \in BOOLEAN : NewChat(w)
    \/ LoadSelectedLog
    \/ \E w \in BOOLEAN : SendMessage(w)
    \/ RequestResponse({"timeout"})
    \/ \E w \in BOOLEAN : AppendResponse(w)

SpecFs == Init /\ [][NextFs]_vars

\* The chat window with a writable logs directory and every way a request
\* fails.
NextNet ==
    \/ NewChat(TRUE)
    \/ LoadSelectedLog
    \/ SendMessage(TRUE)
    \/ RequestResponse(Failures)
    \/ AppendResponse(TRUE)

SpecNet == Init /\ [][NextNet]_vars

OpenModelDialog ==
    \E r \in DlgListResults, resp \in CatOutcomes :
        open_model_dialog(r, resp) /\ UNCHANGED chatVars

RefreshClicked ==
    \E r \in DlgListResults, resp \in CatOutcomes :
        refresh_clicked(r, resp) /\ UNCHANGED chatVars

SelectItem == \E i \in 1..MaxCat : select_item(i) /\ UNCHANGED chatVars

InstallSelected ==
    \E r \in DlgListResults, resp \in CatOutcomes :
        install_selected(r, resp) /\ UNCHANGED chatVars

CloseModelDialog ==
    \E r \in DlgListResults : close_model_dialog(r) /\ UNCHANGED chatVars

\* The model dialog, opened from the chat window.
NextModels ==
    \/ OpenModelDialog
    \/ RefreshClicked
    \/ SelectItem
    \/ InstallSelected
    \/ CloseModelDialog

SpecModels == Init /\ [][NextModels]_vars

ListInstalledModels ==
    \E cli \in CliOutcomes :
        call_list_installed_models(cli) /\ UNCHANGED chatVars

\* list_installed_models() called on every output of the command.
NextList == ListInstalledModels

SpecList == Init /\ [][NextList]_vars

\* ------------------------------------------------------------------ claims
Ids == 1..Len(threads)

\* The places in the log of conversation c of the user's line and of the
\* reply's line of request id.
UserAt(c, id) ==
    { i \in 1..Len(load_log(c)) :
          load_log(c)[i].req = id /\ load_log(c)[i].speaker = "You" }

ReplyAt(c, id) ==
    { i \in 1..Len(load_log(c)) :
          load_log(c)[i].req = id /\ load_log(c)[i].speaker = "Bot" }

\* C1: a send issued while c is the current conversation puts the user's turn
\* in c's log and, once the request has resolved and been delivered, the
\* assistant's turn in the log of the same conversation c, after the user's
\* turn, whatever was selected or started in between.
C1_ReplyInSendersLog ==
    \A id \in Ids :
        LET t == threads[id]
        IN  /\ \E i \in UserAt(t.conv, id) : load_log(t.conv)[i].text = t.prompt
            /\ t.pc = "done" =>
                   \E i \in UserAt(t.conv, id), j \in ReplyAt(t.conv, id) :
                       i < j /\ load_log(t.conv)[j].text = t.response

\* C2: every turn shown in the chat view is in the log file of the current
\* conversation, also after a log write that failed.
C2_ShownIsLogged ==
    /\ chat_view.turns # <<>> => current_conversation # None
    /\ \A k \in 1..Len(chat_view.turns) :
           \E i \in 1..Len(load_log(current_conversation)) :
               /\ load_log(current_conversation)[i].speaker
                      = chat_view.turns[k].speaker
               /\ Render(load_log(current_conversation)[i].text)
                      = chat_view.turns[k].text
    /\ \A k \in 1..Len(chat_view.plain) :
           chat_view.plain[k] \in Range(load_log(current_conversation))

\* C3: a failed request yields a string that starts with "Error: ", and that
\* exact string is what is displayed and what is appended to a conversation
\* log as the assistant's turn; every failed request ends with one turn.
C3_ErrorTurnVerbatim ==
    \A id \in Ids :
        LET t == threads[id]
        IN  /\ (t.pc # "running" /\ t.failed) =>
                   t.response # <<>> /\ Head(t.response) = "Error: "
            /\ (t.pc = "done" /\ t.failed) =>
                   /\ t.turns = 1
                   /\ t.shown = t.response
                   /\ \E c \in DOMAIN files : \E j \in ReplyAt(c, id) :
                          files[c][j].text = t.response

\* The per-conversation state seen through the UI.
ConvState(c) ==
    IF \E id \in Ids : threads[id].conv = c /\ threads[id].pc # "done"
    THEN "awaiting_reply" ELSE "idle"

Queued(id) == { k \in 1..Len(events) : events[k].id = id }

AllReplies(id) ==
    { <<c, j>> \in (DOMAIN files) \X (1..MaxWrites) : j \in ReplyAt(c, id) }

C4_Counts ==
    \A id \in Ids :
        LET t == threads[id]
        IN  /\ t.posts = (IF t.pc = "running" THEN 0 ELSE 1)
            /\ t.turns = (IF t.pc = "done" THEN 1 ELSE 0)
            /\ Cardinality(Queued(id)) = (IF t.pc = "posted" THEN 1 ELSE 0)
            /\ Cardinality(AllReplies(id)) = t.turns

C5_Step ==
    \A c \in DOMAIN files :
        /\ c \in DOMAIN files'
        /\ IsPrefix(files[c], files'[c])
        /\ Len(files'[c]) <= Len(files[c]) + 1

\* A step that sets the view from a log shows the whole log.
C5_Load ==
    (chat_view'.plain # <<>> /\ chat_view'.turns = <<>> /\ chat_view' # chat_view) =>
        chat_view'.plain = files'[current_conversation']

\* C5: the log of a conversation is the sequence of the lines appended for it,
\* in call order: every append, the "Started conversation" line of new_chat on
\* an existing name included, extends the file; nothing truncates, edits or
\* deletes a line; and loading a conversation returns the whole content.
C5_AppendOnly ==
    /\ [][C5_Step /\ C5_Load]_vars
    /\ [](\A c \in DOMAIN files : \A i, j \in 1..Len(files[c]) :
              i < j => files[c][i].ts < files[c][j].ts)

\* new_chat on a name whose log already holds turns, then loaded.
C5_Witness ==
    \E c \in DOMAIN files :
        /\ Len(files[c]) >= 3
        /\ files[c][1].speaker = "system"
        /\ files[c][Len(files[c])].speaker = "system"
        /\ chat_view.plain = files[c]

\* C7 as stated: the speakers written are "user", "assistant" and "system".
C7_SpeakersAsStated ==
    \A c \in DOMAIN files : \A i \in 1..Len(files[c]) :
        files[c][i].speaker \in {"user", "assistant", "system"}

\* C7, amended: every line written to a log has a speaker in {"You", "Bot",
\* "system"}: the user's message is logged as "You", the model's reply or
\* error as "Bot", the conversation-start marker as "system".
C7_Speakers ==
    /\ \A c \in DOMAIN files : \A i \in 1..Len(files[c]) :
           LET l == files[c][i]
           IN  /\ l.speaker \in {"You", "Bot", "system"}
               /\ l.speaker = "system" <=> l.req = 0
               /\ l.req = 0 => l.text = <<"Started conversation">>
               /\ l.speaker = "You" =>
                      l.req \in Ids /\ l.text = threads[l.req].prompt
                                    /\ c = threads[l.req].conv
               /\ l.speaker = "Bot" =>
                      l.req \in Ids /\ l.text = threads[l.req].response
                                    /\ c = threads[l.req].loggedTo
    /\ \A id \in Ids :
           /\ UserAt(threads[id].conv, id) # {}
           /\ threads[id].pc = "done" => ReplyAt(threads[id].loggedTo, id) # {}

C7_Witness ==
    \E c \in DOMAIN files :
        { files[c][i].speaker : i \in 1..Len(files[c]) } = {"You", "Bot", "system"}

\* The time of the last append to conversation c.
LastTs(c) == files[c][Len(files[c])].ts

C10_WritesOnUiThread ==
    /\ \A c \in DOMAIN files : \A i \in 1..Len(files[c]) : files[c][i].by = UI
    /\ \A k \in 1..Len(chat_view.turns) : chat_view.turns[k].by = UI
    /\ \A id \in Ids :
           threads[id].pc = "posted" =>
               /\ Queued(id) # {}
               /\ \A c \in DOMAIN files : ReplyAt(c, id) = {}

\* Two requests were outstanding together and both replies are written.
C10_Witness ==
    \E a, b \in Ids : \E c, d \in DOMAIN files :
        \E i \in UserAt(threads[b].conv, b), j \in ReplyAt(c, a), k \in ReplyAt(d, b) :
            /\ a # b
            /\ load_log(threads[b].conv)[i].ts < files[c][j].ts
            /\ files[c][j].ts < files[d][k].ts

\* C6: list_installed_models() never raises; it returns the empty list when
\* the command fails and, when it succeeds, the first word of each row after
\* the header, in row order.
C6_NeverRaises ==
    /\ ~cli_result.raised
    /\ cli_result.cli.kind # "ok" => cli_result.value = <<>>
    /\ cli_result.cli.kind = "ok" =>
           cli_result.value =
               LET words == [i \in 1..Len(cli_result.cli.rows) |->
                               Split(cli_result.cli.rows[i])]
                   named == SelectSeq(Tail(words), LAMBDA x : x # <<>>)
               IN  [i \in 1..Len(named) |-> named[i][1]]

\* C9: when the dialog has loaded a catalog response, the list holds one row
\* per catalog entry, in order; an entry whose name is installed is marked
\* " - installed" and disabled, any other entry is unmarked and enabled; the
\* current item, the one Install acts on, is never an installed one.
C9_MergedDisplay ==
    (dialog.open /\ dialog.complete) =>
        /\ Len(dialog.items) = Len(dialog.catalog)
        /\ \A i \in 1..Len(dialog.items) :
               LET it == dialog.items[i]
                   m  == dialog.catalog[i]
               IN  /\ it.name = m.name
                   /\ it.text[1] = m.name
                   /\ it.enabled <=> m.name \notin dialog.installed
                   /\ (it.text[Len(it.text)] = " - installed")
                          <=> m.name \in dialog.installed
        /\ dialog.current # 0 =>
               /\ dialog.current \in 1..Len(dialog.items)
               /\ dialog.items[dialog.current].name \notin dialog.installed

\* A catalog naming an installed model and one that is not installed.
C9_Witness ==
    /\ dialog.open /\ dialog.complete
    /\ \E i, j \in 1..Len(dialog.items) :
           /\ ~dialog.items[i].enabled
           /\ dialog.items[i].name \in dialog.installed
           /\ dialog.items[j].enabled
           /\ dialog.current = j

====
